---- MODULE Spec2Model ----
(***************************************************************************)
(* Session-schedule resolution for the BVMF and XNZE exchange calendars.   *)
(*                                                                         *)
(* A Date is the number of days since 1970-01-01, a wall-clock time is the *)
(* number of minutes since local midnight, an Instant is the number of     *)
(* minutes since 1970-01-01T00:00 UTC.  Weekdays are numbered as Python    *)
(* does: Monday = 0 ... Sunday = 6.                                        *)
(***************************************************************************)
EXTENDS Integers, Sequences, FiniteSets

VARIABLES op, cal, sel, lo, hi, out

vars == <<op, cal, sel, lo, hi, out>>

---------------------------------------------------------------------------
(* Bounds of the model: the years queries are drawn from (the last one and *)
(* how many before it) and the longest query range, in days beyond lo.     *)
LastYear == 2022

YearsBefore == 12

FirstYear == LastYear - YearsBefore

MaxSpan == 1

---------------------------------------------------------------------------
(* Calendar arithmetic (proleptic Gregorian calendar, as datetime/pandas). *)

\* pd.Timestamp("y-m-d"): days since 1970-01-01.  yy is the year counted
\* from March, mp the month counted from March.
DaysFromCivil(yy, mp, d) ==
    (yy \div 400) * 146097
        + (yy % 400) * 365 + (yy % 400) \div 4 - (yy % 400) \div 100
        + (153 * mp + 2) \div 5 + d - 1 - 719468

Date(y, m, d) ==
    DaysFromCivil(IF m <= 2 THEN y - 1 ELSE y, IF m > 2 THEN m - 3 ELSE m + 9, d)

\* Timestamp.year / .month / .day of a Date.
CivilOfMonth(y, doy, mp) ==
    [year  |-> IF mp < 10 THEN y ELSE y + 1,
     month |-> IF mp < 10 THEN mp + 3 ELSE mp - 9,
     day   |-> doy - (153 * mp + 2) \div 5 + 1]

CivilOfDayOfYear(y, doy) == CivilOfMonth(y, doy, (5 * doy + 2) \div 153)

CivilOfYearOfEra(era, doe, yoe) ==
    CivilOfDayOfYear(yoe + era * 400, doe - (365 * yoe + yoe \div 4 - yoe \div 100))

CivilOfDayOfEra(era, doe) ==
    CivilOfYearOfEra(era, doe,
        (doe - doe \div 1460 + doe \div 36524 - doe \div 146096) \div 365)

Civil(n) == CivilOfDayOfEra((n + 719468) \div 146097, (n + 719468) % 146097)

YearOf(n) == Civil(n).year

\* datetime.weekday(): Monday = 0 ... Sunday = 6 (1970-01-01 was a Thursday).
Weekday(n) == (n + 3) % 7

\* datetime.time(h, m) as minutes since midnight.
Time(h, m) == h * 60 + m

\* dateutil.easter.easter(y) (western method), which pandas' Easter offset uses.
EasterOfP(y, p) == Date(y, 3 + (p + 26) \div 30, 1 + ((p + 27 + (p + 6) \div 40) % 31))

EasterOfI(y, i) ==
    EasterOfP(y, i - ((y + y \div 4 + i + 2 - (y \div 100) + (y \div 100) \div 4) % 7))

EasterOfH(y, h) ==
    EasterOfI(y, h - (h \div 28) * (1 - (h \div 28) * (29 \div (h + 1)) * ((21 - (y % 19)) \div 11)))

EasterSunday(y) ==
    EasterOfH(y, ((y \div 100) - (y \div 100) \div 4 - (8 * (y \div 100) + 13) \div 25
                    + 19 * (y % 19) + 15) % 30)

---------------------------------------------------------------------------
(* pandas.tseries.holiday: observances, offsets and Holiday.dates.         *)

\* A date that is absent (None) is the empty sequence, a present one <<d>>.
None == <<>>

Some(d) == <<d>>

IsNone(x) == Len(x) = 0

Get(x) == x[1]

IsWeekend(d) == Weekday(d) > 4

\* next_monday: Saturday or Sunday moves to the following Monday.
next_monday(d) ==
    IF Weekday(d) = 5 THEN d + 2
    ELSE IF Weekday(d) = 6 THEN d + 1
    ELSE d

\* next_monday_or_tuesday: Saturday -> Monday, Sunday or Monday -> Tuesday.
next_monday_or_tuesday(d) ==
    IF Weekday(d) \in {5, 6} THEN d + 2
    ELSE IF Weekday(d) = 0 THEN d + 1
    ELSE d

\* previous_friday: Saturday or Sunday moves back to Friday.
previous_friday(d) ==
    IF Weekday(d) = 5 THEN d - 1
    ELSE IF Weekday(d) = 6 THEN d - 2
    ELSE d

\* weekend_to_monday: Sunday +1, Saturday +2.
weekend_to_monday(d) ==
    IF Weekday(d) = 6 THEN d + 1
    ELSE IF Weekday(d) = 5 THEN d + 2
    ELSE d

\* previous_workday: one day back, then back again while on a weekend.
RECURSIVE BackToWorkday(_)
BackToWorkday(d) == IF Weekday(d) > 4 THEN BackToWorkday(d - 1) ELSE d

previous_workday(d) == BackToWorkday(d - 1)

\* The observance function a rule names, applied to a raw occurrence.
ApplyObservance(name, d) ==
    CASE name = "next_monday"            -> next_monday(d)
      [] name = "next_monday_or_tuesday" -> next_monday_or_tuesday(d)
      [] name = "previous_friday"        -> previous_friday(d)
      [] name = "weekend_to_monday"      -> weekend_to_monday(d)
      [] name = "previous_workday"       -> previous_workday(d)

\* The offsets a rule may carry.
Easter == [kind |-> "Easter", n |-> 1]

Day(n) == [kind |-> "Day", n |-> n]

MO(k) == [kind |-> "Monday", n |-> k]

\* The first Easter Sunday strictly after d, a date of year y.
NextEaster(d, y) == IF d < EasterSunday(y) THEN EasterSunday(y) ELSE EasterSunday(y + 1)

\* d + offset.  Easter(): the first Easter Sunday strictly after d.
\* Day(n): n days later.  DateOffset(weekday=MO(k)): the k-th Monday on or
\* after d.
AddOffset(d, o) ==
    CASE o.kind = "Easter" -> NextEaster(d, YearOf(d))
      [] o.kind = "Day"    -> d + o.n
      [] o.kind = "Monday" -> d + ((7 - Weekday(d)) % 7) + 7 * (o.n - 1)

RECURSIVE AddOffsets(_, _)
AddOffsets(d, os) ==
    IF os = <<>> THEN d ELSE AddOffsets(AddOffset(d, Head(os)), Tail(os))

\* Holiday(name, month=, day=): no offset, no observance, unbounded window.
Holiday(name, month, day) ==
    [name |-> name, month |-> month, day |-> day, offset |-> <<>>,
     observance |-> "", start_date |-> None, end_date |-> None]

\* Holiday._apply_rule: the observance if there is one, else the offsets.
ApplyRule(h, d) ==
    IF h.observance # "" THEN ApplyObservance(h.observance, d)
    ELSE AddOffsets(d, h.offset)

\* pandas' ready-made rules.
GoodFriday == [Holiday("Good Friday", 1, 1) EXCEPT !.offset = <<Easter, Day(-2)>>]

EasterMonday == [Holiday("Easter Monday", 1, 1) EXCEPT !.offset = <<Easter, Day(1)>>]

---------------------------------------------------------------------------
(* exchange_calendars.common_holidays: the shared rule constructors.       *)

new_years_day == Holiday("New Year's Day", 1, 1)

anzac_day == Holiday("Anzac Day", 4, 25)

christmas == Holiday("Christmas", 12, 25)

boxing_day == Holiday("Boxing Day", 12, 26)

corpus_christi == [Holiday("Corpus Christi", 1, 1) EXCEPT !.offset = <<Easter, Day(60)>>]

---------------------------------------------------------------------------
(* exchange_calendar_bvmf.py                                               *)

ConfUniversal == Holiday("Dia da Confraternizacao Universal", 1, 1)

AniversarioSaoPaulo ==
    [Holiday("Aniversario de Sao Paulo", 1, 25) EXCEPT !.end_date = Some(Date(2022, 1, 1))]

CarnavalSegunda == [Holiday("Carnaval Segunda", 1, 1) EXCEPT !.offset = <<Easter, Day(-48)>>]

CarnavalTerca == [Holiday("Carnaval Terca", 1, 1) EXCEPT !.offset = <<Easter, Day(-47)>>]

\* Ash Wednesday with no start of validity.
QuartaCinzasAlways ==
    [Holiday("Quarta Cinzas", 1, 1) EXCEPT !.offset = <<Easter, Day(-46)>>]

QuartaCinzas ==
    [Holiday("Quarta Cinzas", 1, 1) EXCEPT !.offset = <<Easter, Day(-46)>>,
                                           !.start_date = Some(Date(2016, 1, 1))]

SextaPaixao == GoodFriday

CorpusChristi == corpus_christi

Tiradentes == Holiday("Tiradentes", 4, 21)

DiaTrabalho == Holiday("Dia Trabalho", 5, 1)

Constitucionalista_prepandemic ==
    [Holiday("Constitucionalista pre-pandemia", 7, 9) EXCEPT
        !.start_date = Some(Date(1998, 1, 1)), !.end_date = Some(Date(2020, 1, 1))]

Constitucionalista_pospandemic ==
    [Holiday("Constitucionalista pos-pandemia", 7, 9) EXCEPT
        !.start_date = Some(Date(2021, 1, 1)), !.end_date = Some(Date(2022, 1, 1))]

Independencia == Holiday("Independencia", 9, 7)

Aparecida == Holiday("Nossa Senhora de Aparecida", 10, 12)

Finados == Holiday("Dia dos Finados", 11, 2)

ProclamacaoRepublica == Holiday("Proclamacao da Republica", 11, 15)

ConscienciaNegra ==
    [Holiday("Dia da Consciencia Negra", 11, 20) EXCEPT
        !.start_date = Some(Date(2004, 1, 1)), !.end_date = Some(Date(2020, 1, 1))]

ConscienciaNegraNacional ==
    [Holiday("Dia Nacional de Zumbi e da Consciencia Negra", 11, 20) EXCEPT
        !.start_date = Some(Date(2024, 1, 1))]

VesperaNatal == Holiday("Vespera Natal", 12, 24)

Natal == Holiday("Natal", 12, 25)

AnoNovo == [Holiday("Ano Novo", 12, 31) EXCEPT !.observance = "previous_friday"]

---------------------------------------------------------------------------
(* exchange_calendar_xnze.py                                               *)

\* Mondayization taking effect a year late.
MondayizationFrom2016 == Date(2016, 1, 1)

MONDAYIZATION_START_DATE == Date(2015, 1, 1)

\* New Year's Day left on January 1 whatever its weekday.
NewYearsDayUnobserved == new_years_day

NewYearsDay == [new_years_day EXCEPT !.observance = "next_monday"]

\* The day after New Year's Day observed as New Year's Day itself is.
DayAfterNewYearsDayNextMonday ==
    [Holiday("Day after New Year's Day", 1, 2) EXCEPT !.observance = "next_monday"]

DayAfterNewYearsDay ==
    [Holiday("Day after New Year's Day", 1, 2) EXCEPT !.observance = "next_monday_or_tuesday"]

WaitangiDayNonMondayized ==
    [Holiday("Waitangi Day", 2, 6) EXCEPT !.end_date = Some(MONDAYIZATION_START_DATE)]

WaitangiDay ==
    [Holiday("Waitangi Day", 2, 6) EXCEPT !.observance = "weekend_to_monday",
                                          !.start_date = Some(MONDAYIZATION_START_DATE)]

AnzacDayNonMondayized == [anzac_day EXCEPT !.end_date = Some(MONDAYIZATION_START_DATE)]

AnzacDay ==
    [anzac_day EXCEPT !.observance = "weekend_to_monday",
                      !.start_date = Some(MONDAYIZATION_START_DATE)]

QueensBirthday == [Holiday("Queen's Birthday", 6, 1) EXCEPT !.offset = <<MO(1)>>]

LabourDay == [Holiday("Labour Day", 10, 1) EXCEPT !.offset = <<MO(4)>>]

Christmas == [christmas EXCEPT !.observance = "next_monday"]

BoxingDay == [boxing_day EXCEPT !.observance = "next_monday_or_tuesday"]

BusinessDayPriorToChristmasDay ==
    [Holiday("Business Day prior to Christmas Day", 12, 25) EXCEPT
        !.observance = "previous_workday", !.start_date = Some(Date(2011, 1, 1))]

\* The early close before New Year's Day valid a year sooner.
BusinessDayPriorToNewYearsDaySince2010 ==
    [Holiday("Business Day prior to New Year's Day", 1, 1) EXCEPT
        !.observance = "previous_workday", !.start_date = Some(Date(2010, 1, 1))]

BusinessDayPriorToNewYearsDay ==
    [Holiday("Business Day prior to New Year's Day", 1, 1) EXCEPT
        !.observance = "previous_workday", !.start_date = Some(Date(2011, 1, 1))]

\* The named one-off closures and the Matariki Day table.
XNZEAdhocDates ==
    { Date(1986, 12, 22), Date(1986, 12, 23), Date(1986, 12, 24), Date(1986, 12, 29),
      Date(1986, 12, 30), Date(1986, 12, 31), Date(1990, 12, 24), Date(1990, 12, 31),
      Date(1991, 12, 27), Date(1992, 1, 3), Date(1999, 12, 31), Date(2022, 9, 26) }

MatarikiDayDates ==
    { Date(2022, 6, 24), Date(2023, 7, 14), Date(2024, 6, 28), Date(2025, 6, 20),
      Date(2026, 7, 10), Date(2027, 6, 25), Date(2028, 7, 14), Date(2029, 7, 6),
      Date(2030, 6, 21), Date(2031, 7, 11), Date(2032, 7, 2), Date(2033, 6, 24),
      Date(2034, 7, 7), Date(2035, 6, 29), Date(2036, 7, 21), Date(2037, 7, 10),
      Date(2038, 6, 25), Date(2039, 7, 15), Date(2040, 7, 6), Date(2041, 7, 19),
      Date(2042, 7, 11), Date(2043, 7, 3), Date(2044, 6, 24), Date(2045, 7, 7),
      Date(2046, 6, 29), Date(2047, 7, 19), Date(2048, 7, 3), Date(2049, 6, 25) }

---------------------------------------------------------------------------
(* The calendars' class attributes.                                        *)

BVMF_tz == "America/Sao_Paulo"

\* The World Cup closure a day late, and two days late (a Saturday).
AdhocOnFriday == { Date(2014, 6, 13) }

AdhocOnSaturday == { Date(2014, 6, 14) }

\* The close schedule changing on the Friday before 2019-11-04.
CloseChangeOnFriday ==
    << [from |-> None, time |-> Time(17, 0)],
       [from |-> Some(Date(2019, 11, 1)), time |-> Time(18, 0)] >>

regular_late_open == Time(13, 0)

BVMF_open_times == << [from |-> None, time |-> Time(10, 0)] >>

BVMF_close_times ==
    << [from |-> None, time |-> Time(17, 0)],
       [from |-> Some(Date(2019, 11, 4)), time |-> Time(18, 0)] >>

BVMF_adhoc_holidays == { Date(2014, 6, 12) }

BVMF_regular_holidays ==
    << ConfUniversal, AniversarioSaoPaulo, CarnavalSegunda, CarnavalTerca, SextaPaixao,
       CorpusChristi, Tiradentes, DiaTrabalho, Constitucionalista_prepandemic,
       Constitucionalista_pospandemic, Independencia, Aparecida, Finados,
       ProclamacaoRepublica, ConscienciaNegra, ConscienciaNegraNacional, VesperaNatal,
       Natal, AnoNovo >>

BVMF_special_opens == << [time |-> regular_late_open, calendar |-> <<QuartaCinzas>>] >>

XNZE_tz == "Pacific/Auckland"

\* An early close before the open.
EarlyCloseBeforeOpen == Time(9, 45)

regular_early_close == Time(12, 45)

XNZE_open_times == << [from |-> None, time |-> Time(10, 0)] >>

XNZE_close_times == << [from |-> None, time |-> Time(16, 45)] >>

XNZE_regular_holidays ==
    << NewYearsDay, DayAfterNewYearsDay, WaitangiDayNonMondayized, WaitangiDay, GoodFriday,
       EasterMonday, AnzacDayNonMondayized, AnzacDay, QueensBirthday, LabourDay, Christmas,
       BoxingDay >>

XNZE_adhoc_holidays == XNZEAdhocDates \cup MatarikiDayDates

\* The early close before New Year's Day given a second spec of its own,
\* at another time.
TwoEarlyCloseTimes ==
    << [time |-> regular_early_close,
        calendar |-> <<BusinessDayPriorToChristmasDay, BusinessDayPriorToNewYearsDay>>],
       [time |-> Time(13, 0), calendar |-> <<BusinessDayPriorToNewYearsDay>>] >>

XNZE_special_closes ==
    << [time |-> regular_early_close,
        calendar |-> <<BusinessDayPriorToChristmasDay, BusinessDayPriorToNewYearsDay>>] >>

\* The rule configuration bundles the engine consumes.  A calendar class
\* that defines no special_opens / special_closes has none.
BVMF ==
    [name |-> "BVMF", tz |-> BVMF_tz, open_times |-> BVMF_open_times,
     close_times |-> BVMF_close_times, regular_holidays |-> BVMF_regular_holidays,
     adhoc_holidays |-> BVMF_adhoc_holidays, special_opens |-> BVMF_special_opens,
     special_closes |-> <<>>]

XNZE ==
    [name |-> "XNZE", tz |-> XNZE_tz, open_times |-> XNZE_open_times,
     close_times |-> XNZE_close_times, regular_holidays |-> XNZE_regular_holidays,
     adhoc_holidays |-> XNZE_adhoc_holidays, special_opens |-> <<>>,
     special_closes |-> XNZE_special_closes]

---------------------------------------------------------------------------
(* Two further rule bundles, for the cases the two exchanges' own tables   *)
(* never produce.                                                          *)

\* BVMF with one more special open, scoped on the month/day of its ad hoc
\* closure: a Date that is both an ad hoc closure and matched by a
\* special-open override.
PrecedenceScenario ==
    [BVMF EXCEPT
        !.name = "BVMF+",
        !.special_opens = @ \o << [time |-> regular_late_open,
                                   calendar |-> <<Holiday("Copa do Mundo", 6, 12)>>] >>]

\* Weekends only, and two special closes with different times whose scopes
\* both match every December 25.
ConflictScenario ==
    [XNZE EXCEPT
        !.name = "CONFLICT",
        !.regular_holidays = <<>>,
        !.adhoc_holidays = {},
        !.special_closes = << [time |-> regular_early_close,
                               calendar |-> <<Holiday("Early close A", 12, 25)>>],
                              [time |-> Time(13, 0),
                               calendar |-> <<Holiday("Early close B", 12, 25)>>] >>]

Exchanges == {BVMF, XNZE}

Calendars == Exchanges \cup {PrecedenceScenario, ConflictScenario}

CalendarNamed(n) == CHOOSE c \in Calendars : c.name = n

\* The Rule Calendars of a bundle: its regular holidays and the scope of its
\* first special open and of its first special close.
Selectors(c) ==
    {"regular_holidays"}
        \cup (IF c.special_opens = <<>> THEN {} ELSE {"special_opens"})
        \cup (IF c.special_closes = <<>> THEN {} ELSE {"special_closes"})

RulesOf(c, s) ==
    CASE s = "regular_holidays" -> c.regular_holidays
      [] s = "special_opens"    -> c.special_opens[1].calendar
      [] s = "special_closes"   -> c.special_closes[1].calendar

ScheduleOf(c, s) ==
    CASE s = "open_times"  -> c.open_times
      [] s = "close_times" -> c.close_times

---------------------------------------------------------------------------
(* Holiday.dates and the calendars' Rule Calendars.                        *)

\* Every rule of every bundle.
RulesIn(rules) == { rules[i] : i \in 1..Len(rules) }

ScopeRules(overrides) == UNION { RulesIn(overrides[i].calendar) : i \in 1..Len(overrides) }

AllRules ==
    UNION { RulesIn(c.regular_holidays) \cup ScopeRules(c.special_opens)
                \cup ScopeRules(c.special_closes) : c \in Calendars }

\* The years a reference date can fall in: from the year before the earliest
\* start_date to the year after the latest query end.
EarliestYear ==
    CHOOSE y \in { YearOf(Get(h.start_date)) : h \in { r \in AllRules : ~IsNone(r.start_date) } }
                    \cup {FirstYear} :
        \A h \in { r \in AllRules : ~IsNone(r.start_date) } : y <= YearOf(Get(h.start_date))

ReferenceYearRange == (EarliestYear - 1) .. (LastYear + 2)

\* The adjusted occurrence of rule h in year y: the raw month/day of the year
\* put through Holiday._apply_rule, tabulated once per rule and year.
Occurrence ==
    [h \in AllRules |->
        [y \in ReferenceYearRange |-> ApplyRule(h, Date(y, h.month, h.day))]]

\* Holiday._reference_dates: one raw occurrence per year, from the year
\* before the start (the rule's start_date if it has one, else the query's)
\* to the year after the end (the rule's end_date if it has one).
ReferenceYears(h, start, end) ==
    (YearOf(IF IsNone(h.start_date) THEN start ELSE Get(h.start_date)) - 1)
        .. (YearOf(IF IsNone(h.end_date) THEN end ELSE Get(h.end_date)) + 1)

Max(a, b) == IF a >= b THEN a ELSE b

Min(a, b) == IF a <= b THEN a ELSE b

\* The adjusted occurrences of the reference years.
AdjustedDates(h, start, end) ==
    { Occurrence[h][y] : y \in ReferenceYears(h, start, end) }

\* Holiday.dates(start, end): the adjusted occurrences, kept when they lie in
\* the query range and in the rule's validity window (both ends included).
HolidayDates(h, start, end) ==
    { x \in AdjustedDates(h, start, end) :
        /\ (IF IsNone(h.start_date) THEN start ELSE Max(Get(h.start_date), start)) <= x
        /\ x <= (IF IsNone(h.end_date) THEN end ELSE Min(Get(h.end_date), end)) }

---------------------------------------------------------------------------
(* Local wall-clock time to Instant, by the zone's rules at each date.     *)

\* The first Sunday on or after d, and the last one on or before d.
SundayOnOrAfter(d) == d + ((6 - Weekday(d)) % 7)

SundayOnOrBefore(d) == d - ((Weekday(d) + 1) % 7)

\* America/Sao_Paulo from 2008: summer time (UTC-2) from 00:00 (read 01:00;
\* a wall-clock time in the skipped hour keeps the earlier offset) on the third
\* Sunday of October (2018: the first Sunday of November) to 00:00 on the
\* third Sunday of February, a week later when that is Carnival Sunday;
\* none since 2019.  Standard time is UTC-3.
SaoPauloDstStart(y) ==
    IF y = 2018 THEN SundayOnOrAfter(Date(y, 11, 1)) ELSE SundayOnOrAfter(Date(y, 10, 1)) + 14

CarnivalShift(third, y) == IF third = EasterSunday(y) - 49 THEN third + 7 ELSE third

SaoPauloDstEnd(y) == CarnivalShift(SundayOnOrAfter(Date(y, 2, 1)) + 14, y)

SaoPauloInDst(d, t, y, start) ==
    \/ (y <= 2018 /\ (d > start \/ (d = start /\ t >= 60)))
    \/ (y <= 2019 /\ d < SaoPauloDstEnd(y))

SaoPauloOffset(d, t) ==
    IF SaoPauloInDst(d, t, YearOf(d), SaoPauloDstStart(YearOf(d))) THEN -120 ELSE -180

\* Pacific/Auckland from 2008: daylight time (UTC+13) from 02:00 standard
\* time on the last Sunday of September to 03:00 daylight time on the first
\* Sunday of April.  Standard time is UTC+12.
AucklandDstStart(y) == SundayOnOrBefore(Date(y, 9, 30))

AucklandDstEnd(y) == SundayOnOrAfter(Date(y, 4, 1))

AucklandInDst(d, t, start, end) ==
    \/ d > start \/ (d = start /\ t >= 180)
    \/ d < end \/ (d = end /\ t < 180)

AucklandOffset(d, t) ==
    IF AucklandInDst(d, t, AucklandDstStart(YearOf(d)), AucklandDstEnd(YearOf(d)))
    THEN 780 ELSE 720

\* utcoffset of wall-clock time t on date d, in minutes.
UtcOffset(tz, d, t) ==
    CASE tz = "America/Sao_Paulo" -> SaoPauloOffset(d, t)
      [] tz = "Pacific/Auckland"  -> AucklandOffset(d, t)

\* (d, t) in the zone as minutes since 1970-01-01T00:00 UTC.
Instant(tz, d, t) == d * 1440 + t - UtcOffset(tz, d, t)

---------------------------------------------------------------------------
(* Rule Calendar, Time Schedule and Session Resolver.                      *)

\* The dates each member rule fires on in [start, end], rule by rule.
FiredByRule(rules, start, end) ==
    [i \in 1..Len(rules) |-> HolidayDates(rules[i], start, end)]

\* holidaysBetween(lo, hi): the union of every member rule's fired dates.
HolidaysBetween(rules, start, end) ==
    UNION { HolidayDates(rules[i], start, end) : i \in 1..Len(rules) }

\* isHoliday(d).
IsHoliday(rules, d) == d \in HolidaysBetween(rules, d, d)

\* The breakpoints not after d.
Covering(schedule, d) ==
    { i \in 1..Len(schedule) : IsNone(schedule[i].from) \/ Get(schedule[i].from) <= d }

Last(indices) == CHOOSE i \in indices : \A j \in indices : j <= i

First(indices) == CHOOSE i \in indices : \A j \in indices : i <= j

\* timeFor(d): the time of the last breakpoint not after d; None when no
\* breakpoint covers d.
TimeFor(schedule, d) ==
    IF Covering(schedule, d) = {} THEN None
    ELSE Some(schedule[Last(Covering(schedule, d))].time)

\* Step 1: the excluded dates of [start, end].
Excluded(c, start, end) ==
    HolidaysBetween(c.regular_holidays, start, end)
        \cup (c.adhoc_holidays \cap (start..end))

\* Step 2: the candidate trading dates of [start, end].
Candidates(c, start, end) ==
    { d \in start..end : ~IsWeekend(d) } \ Excluded(c, start, end)

\* Step 4: the override specs whose scope matches d.
Matching(overrides, d) ==
    { i \in 1..Len(overrides) : IsHoliday(overrides[i].calendar, d) }

\* Step 5: more than one matching override, with differing times.
Conflicting(overrides, d) ==
    Cardinality({ overrides[i].time : i \in Matching(overrides, d) }) > 1

\* The labels of the scope rules that fire on d.
MatchingLabels(overrides, d) ==
    UNION { { overrides[i].calendar[k].name :
                k \in { n \in 1..Len(overrides[i].calendar) :
                          d \in HolidayDates(overrides[i].calendar[n], d, d) } } :
            i \in Matching(overrides, d) }

\* Steps 3 and 4: the time in force on d, the override's if one matches.
OverriddenTime(schedule, overrides, d, m) ==
    IF m = {} THEN Get(TimeFor(schedule, d)) ELSE overrides[First(m)].time

ResolvedTime(schedule, overrides, d) ==
    OverriddenTime(schedule, overrides, d, Matching(overrides, d))

\* Step 6: the Session of candidate date d, open time o and close time x.
MakeSession(tz, d, o, x) ==
    [date |-> d, open_time |-> o, close_time |-> x,
     open |-> Instant(tz, d, o), close |-> Instant(tz, d, x)]

SessionOf(c, d) ==
    MakeSession(c.tz, d, ResolvedTime(c.open_times, c.special_opens, d),
                ResolvedTime(c.close_times, c.special_closes, d))

\* The days of [start, end] in ascending order.
DaySequence(start, end) == [i \in 1..(end - start + 1) |-> start + i - 1]

SessionsOn(c, days) == [i \in 1..Len(days) |-> SessionOf(c, days[i])]

\* The Sessions of the candidate dates, ascending by Date.
SessionsOf(c, cands, start, end) ==
    SessionsOn(c, SelectSeq(DaySequence(start, end), LAMBDA d : d \in cands))

\* The result record of every operation.
NoResult ==
    [error |-> "", date |-> 0, slot |-> "", labels |-> {}, sessions |-> <<>>,
     dates |-> {}, fired |-> <<>>, flag |-> FALSE, time |-> None]

\* The ConfigurationConflict of date d.
Conflict(c, d, onOpen) ==
    [NoResult EXCEPT
        !.error = "ConfigurationConflict", !.date = d,
        !.slot = IF onOpen THEN "special_opens" ELSE "special_closes",
        !.labels = IF onOpen THEN MatchingLabels(c.special_opens, d)
                   ELSE MatchingLabels(c.special_closes, d)]

\* The candidate dates on which two overrides conflict.
ConflictDates(c, cands) ==
    { d \in cands : Conflicting(c.special_opens, d) \/ Conflicting(c.special_closes, d) }

Resolve(c, cands, bad, start, end) ==
    IF bad # {} THEN Conflict(c, First(bad), Conflicting(c.special_opens, First(bad)))
    ELSE [NoResult EXCEPT !.sessions = SessionsOf(c, cands, start, end)]

ResolveCandidates(c, cands, start, end) ==
    Resolve(c, cands, ConflictDates(c, cands), start, end)

\* sessionsBetween(lo, hi): the whole ascending sequence, or the conflict of
\* the first candidate date that has one, and then no session at all.
SessionsBetween(c, start, end) ==
    ResolveCandidates(c, Candidates(c, start, end), start, end)

\* Whether the resolver's result for [d, d] holds a Session.
AsFlag(r) == [r EXCEPT !.flag = (Len(r.sessions) = 1), !.sessions = <<>>]

\* isSession(d), derived from the resolver.
IsSession(c, d) == AsFlag(SessionsBetween(c, d, d))

---------------------------------------------------------------------------
(* The state: a query (calendar, lo, hi), drawn by Init, and the operation *)
(* applied to it with its result.                                          *)

Days == Date(FirstYear, 1, 1) .. Date(LastYear, 12, 31)

Years == FirstYear .. LastYear

\* The query ranges: every short range starting in the window, and every
\* whole calendar year of it.
Ranges ==
    { <<l, l + n>> : l \in Days, n \in 0..MaxSpan }
        \cup { <<Date(y, 1, 1), Date(y, 12, 31)>> : y \in Years }

Init ==
    /\ op = "none"
    /\ cal \in { c.name : c \in Calendars }
    /\ sel = ""
    /\ \E r \in Ranges : lo = r[1] /\ hi = r[2]
    /\ out = NoResult

\* sessionsBetween(lo, hi) on the calendar.
DoSessionsBetween ==
    /\ op = "none"
    /\ op' = "sessionsBetween"
    /\ out' = SessionsBetween(CalendarNamed(cal), lo, hi)
    /\ UNCHANGED <<cal, sel, lo, hi>>

\* isSession(lo) on the calendar.
DoIsSession ==
    /\ op = "none"
    /\ lo = hi
    /\ op' = "isSession"
    /\ out' = IsSession(CalendarNamed(cal), lo)
    /\ UNCHANGED <<cal, sel, lo, hi>>

HolidaysResult(rules, start, end) ==
    [NoResult EXCEPT !.dates = HolidaysBetween(rules, start, end),
                     !.fired = FiredByRule(rules, start, end)]

\* holidaysBetween(lo, hi) on one of an exchange's Rule Calendars.
DoHolidaysBetween ==
    /\ op = "none"
    /\ CalendarNamed(cal) \in Exchanges
    /\ \E s \in Selectors(CalendarNamed(cal)) :
        /\ op' = "holidaysBetween"
        /\ sel' = s
        /\ out' = HolidaysResult(RulesOf(CalendarNamed(cal), s), lo, hi)
    /\ UNCHANGED <<cal, lo, hi>>

\* timeFor(lo) on an exchange's open or close Time Schedule.
DoTimeFor ==
    /\ op = "none"
    /\ lo = hi
    /\ CalendarNamed(cal) \in Exchanges
    /\ \E s \in {"open_times", "close_times"} :
        /\ op' = "timeFor"
        /\ sel' = s
        /\ out' = [NoResult EXCEPT !.time = TimeFor(ScheduleOf(CalendarNamed(cal), s), lo)]
    /\ UNCHANGED <<cal, lo, hi>>

Next ==
    \/ DoSessionsBetween
    \/ DoIsSession
    \/ DoHolidaysBetween
    \/ DoTimeFor

Spec == Init /\ [][Next]_vars

\* The queries on the resolver and on the Time Schedules.
SessionNext ==
    \/ DoSessionsBetween
    \/ DoIsSession
    \/ DoTimeFor

SessionSpec == Init /\ [][SessionNext]_vars

\* The queries on the Rule Calendars.
RuleNext == DoHolidaysBetween

RuleSpec == Init /\ [][RuleNext]_vars

---------------------------------------------------------------------------
(* Properties of the Rule Calendars.                                       *)

IsMonthDay(x, m, d) == Civil(x).month = m /\ Civil(x).day = d

\* The query is one whole calendar year.
YearQuery == lo = Date(YearOf(lo), 1, 1) /\ hi = Date(YearOf(lo), 12, 31)

\* holidaysBetween has answered on XNZE's regular holidays.
XNZERegular == op = "holidaysBetween" /\ cal = "XNZE" /\ sel = "regular_holidays"

\* C7: of the two Waitangi Day rules (members 3 and 4 of XNZE's regular
\* holidays) and the two Anzac Day rules (members 7 and 8), the one with
\* start_date 2015-01-01 fires on no date of 2014 or earlier, the one with
\* end_date 2015-01-01 on no date of 2015 or later, and over any whole year
\* exactly one rule of each pair fires, exactly once: the end_date rule up
\* to 2014, the start_date rule from 2015.
MondayizationBoundary ==
    XNZERegular =>
        /\ \A x \in out.fired[4] \cup out.fired[8] : YearOf(x) >= 2015
        /\ \A x \in out.fired[3] \cup out.fired[7] : YearOf(x) <= 2014
        /\ YearQuery =>
            /\ Cardinality(out.fired[3]) + Cardinality(out.fired[4]) = 1
            /\ Cardinality(out.fired[7]) + Cardinality(out.fired[8]) = 1
            /\ (YearOf(lo) >= 2015) <=> (out.fired[4] # {})
            /\ (YearOf(lo) >= 2015) <=> (out.fired[8] # {})

\* The year 2015: Waitangi Day on Friday February 6 and Anzac Day, a
\* Saturday, on Monday April 27, both by the start_date rules.
MondayizationBoundaryReached ==
    /\ XNZERegular
    /\ lo = Date(2015, 1, 1) /\ hi = Date(2015, 12, 31)
    /\ out.fired[3] = {} /\ out.fired[4] = {Date(2015, 2, 6)}
    /\ out.fired[7] = {} /\ out.fired[8] = {Date(2015, 4, 27)}

\* x is the date New Year's Day is observed on: January 1 when a weekday,
\* else the Monday after it (January 2 after a Sunday, 3 after a Saturday).
ObservedNewYear(x) ==
    \/ IsMonthDay(x, 1, 1) /\ Weekday(x) <= 4
    \/ Weekday(x) = 0 /\ (IsMonthDay(x, 1, 2) \/ IsMonthDay(x, 1, 3))

\* C8: NewYearsDay (member 1 of XNZE's regular holidays) fires in [lo, hi]
\* exactly on the dates New Year's Day is observed on: January 1 when it is
\* a weekday, the following Monday and not January 1 when it is a Saturday
\* or Sunday; once in every whole year.
NewYearsDayObserved ==
    XNZERegular =>
        /\ out.fired[1] = { x \in lo..hi : ObservedNewYear(x) }
        /\ YearQuery => Cardinality(out.fired[1]) = 1

\* 2022, where January 1 is a Saturday: Monday January 3 alone.
NewYearsDayObservedReached ==
    /\ XNZERegular
    /\ lo = Date(2022, 1, 1) /\ hi = Date(2022, 12, 31)
    /\ Weekday(lo) = 5
    /\ out.fired[1] = {Date(2022, 1, 3)}

\* x is the last Monday-to-Friday date of its year.
LastWeekdayOfYear(x) ==
    /\ Weekday(x) <= 4
    /\ \A z \in (x + 1)..Date(YearOf(x), 12, 31) : Weekday(z) >= 5

\* holidaysBetween has answered on the scope of XNZE's early close.
XNZEEarlyCloseScope == op = "holidaysBetween" /\ cal = "XNZE" /\ sel = "special_closes"

\* C9: BusinessDayPriorToNewYearsDay (member 2 of the scope of XNZE's early
\* close) fires in [lo, hi] exactly on the last weekdays of a year that lie
\* in [lo, hi] and not before 2011-01-01: a range ending on December 31
\* holds that year's date although the raw January 1 lies after it, and
\* 2010-12-31 never fires.
PriorToNewYearClipped ==
    XNZEEarlyCloseScope =>
        /\ out.fired[2] = { x \in lo..hi : LastWeekdayOfYear(x) /\ x >= Date(2011, 1, 1) }
        /\ Date(2010, 12, 31) \notin out.fired[2]

\* A range ending on 2011-12-31, a Saturday: Friday 2011-12-30 fires.
PriorToNewYearClippedReached ==
    /\ XNZEEarlyCloseScope
    /\ hi = Date(2011, 12, 31)
    /\ out.fired[2] = {Date(2011, 12, 30)}

\* C10: the dates of NewYearsDay and DayAfterNewYearsDay (members 1 and 2)
\* and of Christmas and BoxingDay (members 11 and 12) are Monday-to-Friday
\* dates, the two rules of a pair never fire on the same date, and over any
\* whole year each pair fires on exactly two dates.
AdjacentPairsDistinct ==
    XNZERegular =>
        /\ \A x \in out.fired[1] \cup out.fired[2] \cup out.fired[11] \cup out.fired[12] :
                Weekday(x) <= 4
        /\ out.fired[1] \cap out.fired[2] = {}
        /\ out.fired[11] \cap out.fired[12] = {}
        /\ YearQuery =>
            /\ Cardinality(out.fired[1]) = 1 /\ Cardinality(out.fired[2]) = 1
            /\ Cardinality(out.fired[11]) = 1 /\ Cardinality(out.fired[12]) = 1

\* 2011, where January 1 is a Saturday and December 25 a Sunday: Monday and
\* Tuesday, twice.
AdjacentPairsDistinctReached ==
    /\ XNZERegular
    /\ lo = Date(2011, 1, 1) /\ hi = Date(2011, 12, 31)
    /\ out.fired[1] = {Date(2011, 1, 3)} /\ out.fired[2] = {Date(2011, 1, 4)}
    /\ out.fired[11] = {Date(2011, 12, 26)} /\ out.fired[12] = {Date(2011, 12, 27)}

---------------------------------------------------------------------------
(* Properties of the Session Resolver and of the Time Schedules.           *)

\* The Dates of the Sessions of a result.
SessionDates(r) == { r.sessions[i].date : i \in 1..Len(r.sessions) }

\* sessionsBetween or isSession has answered.
Resolved == op \in {"sessionsBetween", "isSession"}

\* C1: no ad hoc date of the calendar that lies in the query range is the
\* Date of a returned Session, and isSession of it is false; so it is for
\* BVMF's 2014-06-12, with the exchange's own special opens and with one
\* more whose scope matches that very date.
AdhocWins ==
    Resolved =>
        /\ \A d \in CalendarNamed(cal).adhoc_holidays \cap (lo..hi) :
                d \notin SessionDates(out) /\ ~out.flag
        /\ (cal \in {"BVMF", "BVMF+"} /\ Date(2014, 6, 12) \in lo..hi) =>
                Date(2014, 6, 12) \notin SessionDates(out) /\ ~out.flag

\* isSession(2014-06-12) is false on the calendar whose second special
\* open matches that date.
AdhocWinsReached ==
    /\ op = "isSession" /\ cal = "BVMF+"
    /\ lo = Date(2014, 6, 12)
    /\ lo \in PrecedenceScenario.adhoc_holidays
    /\ Matching(PrecedenceScenario.special_opens, lo) = {2}
    /\ out.error = "" /\ ~out.flag

\* The December 25 dates of the query range, and those on a weekday.
ChristmasDates == { d \in lo..hi : IsMonthDay(d, 12, 25) }

ChristmasWeekdays == { d \in ChristmasDates : Weekday(d) <= 4 }

BothLabels == {"Early close A", "Early close B"}

ByHoliday(c, d) == IsHoliday(c.regular_holidays, d)

ByWeekend(d) == Weekday(d) >= 5

ByAdhoc(c, d) == d \in c.adhoc_holidays

ReasonCount(c, d) ==
    (IF ByHoliday(c, d) THEN 1 ELSE 0) + (IF ByWeekend(d) THEN 1 ELSE 0)
        + (IF ByAdhoc(c, d) THEN 1 ELSE 0)

\* C3 as stated: a date is a session or has exactly one reason not to be.
ExactlyOneReason ==
    (op = "isSession" /\ out.error = "") =>
        (ReasonCount(CalendarNamed(cal), lo) + (IF out.flag THEN 1 ELSE 0) = 1)

\* C3, amended: a date is a session exactly when it has no reason not to be
\* one; a rule with no observance fires on its month/day on Saturdays and
\* Sundays too, so holiday and weekend can hold together, but an ad hoc date
\* is never a weekend day nor a regular holiday; and sessionsBetween returns
\* the dates of the range with no reason, in ascending order.
ReasonsCoverEveryDate ==
    /\ (op = "isSession" /\ out.error = "") =>
        /\ out.flag <=> (ReasonCount(CalendarNamed(cal), lo) = 0)
        /\ ByAdhoc(CalendarNamed(cal), lo) => ReasonCount(CalendarNamed(cal), lo) = 1
    /\ (op = "sessionsBetween" /\ out.error = "") =>
        /\ SessionDates(out) = { d \in lo..hi : ReasonCount(CalendarNamed(cal), d) = 0 }
        /\ \A i \in 1..(Len(out.sessions) - 1) :
                out.sessions[i].date < out.sessions[i + 1].date

\* Tiradentes 2018, a Saturday: a holiday and a weekend day at once.
ReasonsCoverEveryDateReached ==
    /\ op = "isSession" /\ cal = "BVMF"
    /\ lo = Date(2018, 4, 21)
    /\ ByHoliday(BVMF, lo) /\ ByWeekend(lo)
    /\ ~out.flag

\* C4: every returned Session opens before it closes, as Instants.
OpenBeforeClose ==
    op = "sessionsBetween" =>
        \A i \in 1..Len(out.sessions) : out.sessions[i].open < out.sessions[i].close

\* An XNZE session with the early close, 12:45 against the 10:00 open.
OpenBeforeCloseReached ==
    /\ op = "sessionsBetween" /\ cal = "XNZE"
    /\ \E i \in 1..Len(out.sessions) :
        /\ out.sessions[i].open_time = Time(10, 0)
        /\ out.sessions[i].close_time = Time(12, 45)
        /\ out.sessions[i].open < out.sessions[i].close

\* The index of the breakpoint of schedule that is in force on d is i: it is
\* not after d, and no breakpoint not after d is later than it.
InForce(schedule, i, d) ==
    /\ IsNone(schedule[i].from) \/ Get(schedule[i].from) <= d
    /\ \A j \in 1..Len(schedule) :
        (~IsNone(schedule[j].from) /\ Get(schedule[j].from) <= d) =>
            (~IsNone(schedule[i].from) /\ Get(schedule[j].from) <= Get(schedule[i].from))

\* BVMF's close as the schedule [(unbounded, 17:00), (2019-11-04, 18:00)]
\* gives it.
CloseOn(d) == IF d < Date(2019, 11, 4) THEN Time(17, 0) ELSE Time(18, 0)

\* C5: timeFor(d) is the time of the breakpoint with the greatest
\* effective_from not after d, the unbounded-past one when no dated one is;
\* on BVMF's close schedule it is 17:00 before 2019-11-04 and 18:00 from
\* it, and every BVMF session closes at that time.
CloseTimeInForce ==
    /\ op = "timeFor" =>
        \E i \in 1..Len(ScheduleOf(CalendarNamed(cal), sel)) :
            /\ InForce(ScheduleOf(CalendarNamed(cal), sel), i, lo)
            /\ out.time = Some(ScheduleOf(CalendarNamed(cal), sel)[i].time)
    /\ (op = "timeFor" /\ cal = "BVMF" /\ sel = "close_times") =>
        out.time = Some(CloseOn(lo))
    /\ (op = "sessionsBetween" /\ cal \in {"BVMF", "BVMF+"}) =>
        \A i \in 1..Len(out.sessions) :
            out.sessions[i].close_time = CloseOn(out.sessions[i].date)

\* 2019: the session of Friday November 1 closes at 17:00, the session of
\* Monday November 4 at 18:00.
CloseTimeInForceReached ==
    /\ op = "sessionsBetween" /\ cal = "BVMF"
    /\ \E i, j \in 1..Len(out.sessions) :
        /\ out.sessions[i].date = Date(2019, 11, 1)
        /\ out.sessions[i].close_time = Time(17, 0)
        /\ out.sessions[j].date = Date(2019, 11, 4)
        /\ out.sessions[j].close_time = Time(18, 0)

\* d is the 46th day before Easter Sunday of its year.
IsAshWednesday(d) == d = EasterSunday(YearOf(d)) - 46

\* C6: a BVMF Session opens at 13:00 exactly when its Date is Easter minus
\* 46 days and not before 2016-01-01, and at the base 10:00 otherwise (so on
\* the Easter-minus-46 dates before 2016); its close is the close schedule's
\* time for the Date either way.
LateOpenOnAshWednesday ==
    (op = "sessionsBetween" /\ cal = "BVMF") =>
        \A i \in 1..Len(out.sessions) :
            /\ out.sessions[i].open_time =
                    (IF IsAshWednesday(out.sessions[i].date)
                          /\ out.sessions[i].date >= Date(2016, 1, 1)
                     THEN Time(13, 0) ELSE Time(10, 0))
            /\ Some(out.sessions[i].close_time) = TimeFor(BVMF_close_times, out.sessions[i].date)

\* The session of 2016-02-10, 46 days before Easter 2016-03-27, opens at
\* 13:00 and closes at 17:00.
LateOpenOnAshWednesdayReached ==
    /\ op = "sessionsBetween" /\ cal = "BVMF"
    /\ EasterSunday(2016) = Date(2016, 3, 27)
    /\ \E i \in 1..Len(out.sessions) :
        /\ out.sessions[i].date = Date(2016, 2, 10)
        /\ out.sessions[i].open_time = Time(13, 0)
        /\ out.sessions[i].close_time = Time(17, 0)

====
